---- MODULE Spec2Model ----
(***************************************************************************)
(* Model of the demo issuer: the identity (identity.New, AddClaim,         *)
(* GetIdentity, GetRevocationStatus) over the three-tree identity state,   *)
(* and the state publisher (UpdateState, WaitTransaction).                 *)
(*                                                                         *)
(* Hashes are modelled as collision-free: a tree root is the set of the    *)
(* tree's leaves, Poseidon of a list is the list itself.                   *)
(***************************************************************************)
EXTENDS Integers, FiniteSets, Sequences, TLC

\* ------------------------------------------------------------------ bounds
NumAdders == 2      \* request threads running AddClaim
NumReaders == 1     \* request threads running GetIdentity / GetRevocationStatus
NumPublishers == 2  \* threads running UpdateState
NumWaiters == 1     \* threads running WaitTransaction
MaxState == 2       \* state hashes a transition can carry: 1..MaxState
MaxTx == 2          \* transactions the chain accepts in a run
MaxIndex == 2       \* index-slot contents a request can carry: 1..MaxIndex
MaxNonce == 2       \* revocation nonces a request can carry: 1..MaxNonce
MaxInFlight == 2    \* requests the server handles at the same time

Adders == 1..NumAdders
Readers == 1..NumReaders
Publishers == 1..NumPublishers
Waiters == 1..NumWaiters
States == 1..MaxState
Indexes == 1..MaxIndex
Nonces == 1..MaxNonce

\* ------------------------------------------------------------------ state
VARIABLES
    claimsTree,       \* IdentityState.Claims.Tree: h_index -> h_value
    revocationsTree,  \* IdentityState.Revocations.Tree: nonce -> version
    rootsTree,        \* IdentityState.Roots.Tree: index -> claims root
    claimsDB,         \* the claim records of the db, by claim id
    savedIdentity,    \* the identity saved in the db, <<>> when none
    phase,            \* "down" | "running" | "failed": the process (CreateApp)
    lastStart,        \* "none" | "fresh" | "restore": what the last New() found in the db
    Identifier,       \* Identity.Identifier, <<>> when nil
    authClaimId,      \* Identity.authClaimId, <<>> when nil
    apc, areq, ares,  \* AddClaim threads: position, request, result
    amodel,           \* AddClaim threads: the claim model built from the request
    rpc, rop, rresp,  \* reader threads: position, operation, response
    rquiet,           \* history: no mutation ran during the reader's call
    issued,           \* history: claim ids whose tree insertion returned nil
    rw,               \* PublisherServer.rw: the set of threads holding the mutex
    upc, ureq, ures,  \* UpdateState threads: position, transition info, result
    upayload,         \* UpdateState threads: the payload built
    unonce,           \* UpdateState threads: the nonce fetched
    utouched,         \* history: the call made a chain call or signed
    txs,              \* the chain: the transactions broadcast, in nonce order
    receipts,         \* the chain: the receipt status of each transaction
    wpc, wtx,         \* WaitTransaction threads: position, transaction waited for
    wclosed           \* WaitTransaction threads: the done channel is closed

idVars == <<claimsTree, revocationsTree, rootsTree, claimsDB, savedIdentity,
            phase, lastStart, Identifier, authClaimId, apc, areq, ares, amodel,
            rpc, rop, rresp, rquiet, issued>>

pubVars == <<rw, upc, ureq, ures, upayload, unonce, utouched, txs, receipts,
             wpc, wtx, wclosed>>

vars == <<idVars, pubVars>>

\* ------------------------------------------------------------------ hashing
EmptyTree == <<>>

\* merkletree.Tree.Root(): the digest of the leaves
Root(tree) == {<<k, tree[k]>> : k \in DOMAIN tree}

\* merkletree.HashElems(a, b, c)
HashElems(a, b, c) == <<a, b, c>>

\* Hash.Hex()
Hex(h) == <<"hex", h>>

\* core.IdGenesisFromIdenState(core.TypeDefault, state)
IdGenesisFromIdenState(state) == <<"id", state>>

\* GetStateHash with the revocations root and the roots root exchanged
GetStateHash_Swapped(claims, revs, roots) ==
    HashElems(Root(claims), Root(roots), Root(revs))

\* GetStateHash leaving the revocations root out
GetStateHash_NoRevs(claims, revs, roots) ==
    HashElems(Root(claims), Root(EmptyTree), Root(roots))

\* IdentityState.GetStateHash
GetStateHash(claims, revs, roots) ==
    HashElems(Root(claims), Root(revs), Root(roots))

\* ------------------------------------------------------------------ claims
\* claim.NewAuthClaim(i.sk.Public(), schemaHash): the public key in the index
\* slots, revocation nonce 0
NewAuthClaim == [index |-> 0, nonce |-> 0]

\* claim.GenerateCoreClaim(claimReq)
GenerateCoreClaim(req) == [index |-> req.index, nonce |-> req.nonce]

\* core.Claim.HIndex(): Poseidon of the index slots
HIndex(c) == <<"hi", c.index>>

\* core.Claim.HiHv(): Poseidon of the value slots
HValue(c) == <<"hv", c.nonce>>

NoProof ==
    [existence |-> FALSE, issuerID |-> <<>>, state |-> <<>>, claimsTreeRoot |-> <<>>]

NoSignatureProof == [signed |-> <<>>, issuerAuthClaim |-> <<>>, revocationStatus |-> <<>>]

\* Identity.generateProof(claimId)
generateProof(claims, revs, roots, identifier, claimId) ==
    [existence |-> claimId \in DOMAIN claims,
     issuerID |-> identifier,
     state |-> Hex(GetStateHash(claims, revs, roots)),
     claimsTreeRoot |-> Hex(Root(claims))]

\* claim.CoreClaimToClaimModel(coreClaim, url, type)
CoreClaimToClaimModel(c) ==
    [ID |-> HIndex(c), RevNonce |-> c.nonce, Identifier |-> <<>>,
     SignatureProof |-> NoSignatureProof, MTPProof |-> NoProof]

\* claim.SignClaimEntry(c, i.sign): the signature over the entry of the claim
\* it is given
SignClaimEntry(c) ==
    [signed |-> c.ID, issuerAuthClaim |-> c.ID, revocationStatus |-> <<>>]

\* fmt.Sprintf("%s/api/v1/claims/revocation/status/%d", i.baseUrl, nonce)
RevocationStatusURL(nonce) == <<"/api/v1/claims/revocation/status", nonce>>

\* Claims.SaveClaimMT(c): Claims.add(hi, hv), fails Duplicate on a present key
SaveClaimMT(tree, c) ==
    IF HIndex(c) \in DOMAIN tree
    THEN [tree |-> tree, err |-> "Duplicate"]
    ELSE [tree |-> (HIndex(c) :> HValue(c)) @@ tree, err |-> "nil"]

\* Claims.SaveClaimDB(c): the record, under its id
SaveClaimDB(db, m) == (m.ID :> m) @@ db

\* AddClaimToTree writing the leaf over the genesis root instead of the current
\* one: the insertions made since are lost
AddClaimToTree_Stale(tree, c) ==
    IF HIndex(c) \in DOMAIN tree
    THEN [tree |-> tree, err |-> "Duplicate"]
    ELSE [tree |-> (HIndex(c) :> HValue(c))
                     @@ [k \in DOMAIN tree \cap {HIndex(NewAuthClaim)} |-> tree[k]],
          err |-> "nil"]

\* AddClaimToTree updating a present leaf instead of rejecting it
AddClaimToTree_Upsert(tree, c) ==
    [tree |-> (HIndex(c) :> HValue(c)) @@ tree, err |-> "nil"]

\* AddClaimToTree returning nil without the insertion
AddClaimToTree_Skip(tree, c) == [tree |-> tree, err |-> "nil"]

\* IdentityState.AddClaimToTree
AddClaimToTree(tree, c) == SaveClaimMT(tree, c)

\* AddClaimToDB returning nil without the write once the db holds a record
AddClaimToDB_OnlyFirst(db, m) == IF DOMAIN db = {} THEN m.ID :> m ELSE db

\* AddClaimToDB writing the record in place of the records there are
AddClaimToDB_Replace(db, m) == m.ID :> m

\* IdentityState.AddClaimToDB
AddClaimToDB(db, m) == SaveClaimDB(db, m)

\* SaveIdentity deriving the identifier again, from the current state
SaveIdentity_Rederive(identifier, authId) ==
    [id |-> IF DOMAIN claimsTree = {}
            THEN identifier
            ELSE IdGenesisFromIdenState(
                     GetStateHash(claimsTree, revocationsTree, rootsTree)),
     authClaimId |-> authId]

\* IdentityState.SaveIdentity: db.SaveIdentity(id, authId)
SaveIdentity(identifier, authId) == [id |-> identifier, authClaimId |-> authId]

\* Revocations.add(nonce, version), fails AlreadyRevoked on a present nonce
AddRevocation(tree, nonce) ==
    IF nonce \in DOMAIN tree
    THEN [tree |-> tree, err |-> "AlreadyRevoked"]
    ELSE [tree |-> (nonce :> 0) @@ tree, err |-> "nil"]

\* Revocations.GenerateRevocationProof(rID)
GenerateRevocationProof(tree, nonce) == [existence |-> nonce \in DOMAIN tree]

\* ------------------------------------------------------------------ init
NoIdentity == [id |-> <<>>, authClaimId |-> <<>>]

NoRequest == [index |-> 0, nonce |-> 0]

NoModel == CoreClaimToClaimModel(NoRequest)

NoResponse ==
    [Identifier |-> <<>>, State |-> <<>>, ClaimsTreeRoot |-> <<>>,
     RevocationTreeRoot |-> <<>>, RootOfRoots |-> <<>>, MTP |-> [existence |-> FALSE],
     Nonce |-> 0]

IdInit ==
    /\ claimsTree = EmptyTree
    /\ revocationsTree = EmptyTree
    /\ rootsTree = EmptyTree
    /\ claimsDB = <<>>
    /\ savedIdentity = NoIdentity
    /\ phase = "down"
    /\ lastStart = "none"
    /\ Identifier = <<>>
    /\ authClaimId = <<>>
    /\ apc = [p \in Adders |-> "idle"]
    /\ areq = [p \in Adders |-> NoRequest]
    /\ ares = [p \in Adders |-> "none"]
    /\ amodel = [p \in Adders |-> NoModel]
    /\ rpc = [r \in Readers |-> "idle"]
    /\ rop = [r \in Readers |-> "none"]
    /\ rresp = [r \in Readers |-> NoResponse]
    /\ rquiet = [r \in Readers |-> TRUE]
    /\ issued = {}

storeVars == <<claimsTree, revocationsTree, rootsTree, claimsDB, savedIdentity>>
adderVars == <<apc, areq, ares, amodel>>
readerVars == <<rpc, rop, rresp, rquiet>>

\* a mutation of a tree ends the quiet of every reader in the middle of a call
Disturbed == [r \in Readers |-> IF rpc[r] \in {"idle", "done"} THEN rquiet[r] ELSE FALSE]

\* the requests being handled
InFlight ==
    Cardinality({p \in Adders : apc[p] # "idle"})
        + Cardinality({r \in Readers : rpc[r] # "idle"})

\* ------------------------------------------------------------------ start
\* identity.New: init() (setupGenesisState, generateProof, AddClaimToDB), then
\* SaveIdentity; CreateApp returns its error and the process ends.
\* fault: the store operation that fails with an I/O error, if any.
New(fault) ==
    LET authClaim == NewAuthClaim
        added == IF fault = "tree"
                 THEN [tree |-> claimsTree, err |-> "StoreIO"]
                 ELSE AddClaimToTree(claimsTree, authClaim)
        claimId == HIndex(authClaim)
        currState == GetStateHash(added.tree, revocationsTree, rootsTree)
        identifier == IdGenesisFromIdenState(currState)
        proof == generateProof(added.tree, revocationsTree, rootsTree, identifier, claimId)
        authClaimModel == [CoreClaimToClaimModel(authClaim) EXCEPT
                             !.ID = claimId, !.MTPProof = proof,
                             !.Identifier = identifier]
    IN  /\ phase \in {"down", "failed"}
        /\ lastStart' = IF savedIdentity = NoIdentity THEN "fresh" ELSE "restore"
        /\ UNCHANGED <<revocationsTree, rootsTree, adderVars, readerVars,
                       issued, pubVars>>
        /\ IF added.err # "nil"
           THEN /\ phase' = "failed"
                /\ UNCHANGED <<claimsTree, claimsDB, savedIdentity,
                               Identifier, authClaimId>>
           ELSE /\ claimsTree' = added.tree
                /\ IF fault = "db"
                   THEN /\ phase' = "failed"
                        /\ UNCHANGED <<claimsDB, savedIdentity, Identifier, authClaimId>>
                   ELSE /\ claimsDB' = AddClaimToDB(claimsDB, authClaimModel)
                        /\ IF fault = "save"
                           THEN /\ phase' = "failed"
                                /\ UNCHANGED <<savedIdentity, Identifier, authClaimId>>
                           ELSE /\ savedIdentity' = SaveIdentity(identifier, claimId)
                                /\ Identifier' = identifier
                                /\ authClaimId' = claimId
                                /\ phase' = "running"

Start == \E fault \in {"none", "tree", "db", "save"} : New(fault)

\* the process stops: the identity object and the request threads are gone,
\* the store stays
Stop ==
    /\ phase = "running"
    /\ phase' = "down"
    /\ Identifier' = <<>>
    /\ authClaimId' = <<>>
    /\ apc' = [p \in Adders |-> "idle"]
    /\ areq' = [p \in Adders |-> NoRequest]
    /\ ares' = [p \in Adders |-> "none"]
    /\ amodel' = [p \in Adders |-> NoModel]
    /\ rpc' = [r \in Readers |-> "idle"]
    /\ rop' = [r \in Readers |-> "none"]
    /\ rresp' = [r \in Readers |-> NoResponse]
    /\ rquiet' = [r \in Readers |-> TRUE]
    /\ UNCHANGED pubVars
    /\ UNCHANGED <<storeVars, lastStart, issued>>


\* ------------------------------------------------------------------ AddClaim
\* AddClaim inserting the claim in the tree before the schema is processed
AddClaimProcess_Late(p) ==
    /\ phase = "running"
    /\ apc[p] = "idle"
    /\ InFlight < MaxInFlight
    /\ \E index \in Indexes, nonce \in Nonces, schemaOk \in BOOLEAN :
         /\ areq' = [areq EXCEPT ![p] = [index |-> index, nonce |-> nonce]]
         /\ claimsTree' = AddClaimToTree(claimsTree, GenerateCoreClaim(areq'[p])).tree
         /\ IF schemaOk
            THEN /\ apc' = [apc EXCEPT ![p] = "sign"]
                 /\ amodel' = [amodel EXCEPT ![p] =
                        CoreClaimToClaimModel(GenerateCoreClaim(areq'[p]))]
                 /\ UNCHANGED ares
            ELSE /\ apc' = [apc EXCEPT ![p] = "done"]
                 /\ ares' = [ares EXCEPT ![p] = "SchemaInvalid"]
                 /\ UNCHANGED amodel
    /\ UNCHANGED pubVars
    /\ UNCHANGED <<revocationsTree, rootsTree, claimsDB, savedIdentity, phase,
                   lastStart, Identifier, authClaimId, readerVars, issued>>

\* AddClaim, lines 158-195: schema.Process, GenerateCoreClaim,
\* CoreClaimToClaimModel, CreateCredentialStatus
AddClaimProcess(p) ==
    /\ phase = "running"
    /\ apc[p] = "idle"
    /\ InFlight < MaxInFlight
    /\ \E index \in Indexes, nonce \in Nonces, schemaOk \in BOOLEAN :
         /\ areq' = [areq EXCEPT ![p] = [index |-> index, nonce |-> nonce]]
         /\ IF schemaOk
            THEN /\ apc' = [apc EXCEPT ![p] = "sign"]
                 /\ amodel' = [amodel EXCEPT ![p] =
                        CoreClaimToClaimModel(GenerateCoreClaim(areq'[p]))]
                 /\ UNCHANGED ares
            ELSE /\ apc' = [apc EXCEPT ![p] = "done"]
                 /\ ares' = [ares EXCEPT ![p] = "SchemaInvalid"]
                 /\ UNCHANGED amodel
    /\ UNCHANGED pubVars
    /\ UNCHANGED <<storeVars, phase, lastStart, Identifier, authClaimId,
                   readerVars, issued>>

\* AddClaim, lines 197-220: the auth claim from the db, SignClaimEntry, the
\* revocation-status url, the issuer
AddClaimSign(p) ==
    /\ phase = "running"
    /\ apc[p] = "sign"
    /\ IF authClaimId \in DOMAIN claimsDB
       THEN LET c == claimsDB[authClaimId]
                proof == [SignClaimEntry(c) EXCEPT
                            !.revocationStatus = RevocationStatusURL(amodel[p].RevNonce)]
            IN  /\ amodel' = [amodel EXCEPT ![p] =
                       [@ EXCEPT !.Identifier = Identifier,
                                 !.SignatureProof = proof]]
                /\ apc' = [apc EXCEPT ![p] = "tree"]
                /\ UNCHANGED ares
       ELSE /\ apc' = [apc EXCEPT ![p] = "done"]
            /\ ares' = [ares EXCEPT ![p] = "KeyNotFound"]
            /\ UNCHANGED amodel
    /\ UNCHANGED pubVars
    /\ UNCHANGED <<storeVars, phase, lastStart, Identifier, authClaimId, areq,
                   readerVars, issued>>

\* AddClaim, lines 222-226: AddClaimToTree
AddClaimTree(p) ==
    /\ phase = "running"
    /\ apc[p] = "tree"
    /\ \E fault \in BOOLEAN :
         LET coreClaim == GenerateCoreClaim(areq[p])
             added == IF fault
                      THEN [tree |-> claimsTree, err |-> "TreeIO"]
                      ELSE AddClaimToTree(claimsTree, coreClaim)
         IN  IF added.err # "nil"
             THEN /\ apc' = [apc EXCEPT ![p] = "done"]
                  /\ ares' = [ares EXCEPT ![p] = added.err]
                  /\ UNCHANGED <<claimsTree, issued, rquiet>>
             ELSE /\ claimsTree' = added.tree
                  /\ issued' = issued \cup {HIndex(coreClaim)}
                  /\ rquiet' = Disturbed
                  /\ apc' = [apc EXCEPT ![p] = "db"]
                  /\ UNCHANGED ares
    /\ UNCHANGED pubVars
    /\ UNCHANGED <<revocationsTree, rootsTree, claimsDB, savedIdentity, phase,
                   lastStart, Identifier, authClaimId, areq, amodel,
                   rpc, rop, rresp>>

\* AddClaim, lines 228-232: AddClaimToDB
AddClaimDB(p) ==
    /\ phase = "running"
    /\ apc[p] = "db"
    /\ \E fault \in BOOLEAN :
         IF fault
         THEN /\ apc' = [apc EXCEPT ![p] = "done"]
              /\ ares' = [ares EXCEPT ![p] = "DbIO"]
              /\ UNCHANGED claimsDB
         ELSE /\ claimsDB' = AddClaimToDB(claimsDB, amodel[p])
              /\ apc' = [apc EXCEPT ![p] = "save"]
              /\ UNCHANGED ares
    /\ UNCHANGED pubVars
    /\ UNCHANGED <<claimsTree, revocationsTree, rootsTree, savedIdentity, phase,
                   lastStart, Identifier, authClaimId, areq, amodel,
                   readerVars, issued>>

\* AddClaim, lines 234-240: SaveIdentity, the response
AddClaimSave(p) ==
    /\ phase = "running"
    /\ apc[p] = "save"
    /\ \E fault \in BOOLEAN :
         IF fault
         THEN /\ ares' = [ares EXCEPT ![p] = "SaveIO"]
              /\ UNCHANGED savedIdentity
         ELSE /\ savedIdentity' = SaveIdentity(Identifier, authClaimId)
              /\ ares' = [ares EXCEPT ![p] = "ok"]
    /\ apc' = [apc EXCEPT ![p] = "done"]
    /\ UNCHANGED pubVars
    /\ UNCHANGED <<claimsTree, revocationsTree, rootsTree, claimsDB, phase,
                   lastStart, Identifier, authClaimId, areq, amodel,
                   readerVars, issued>>

\* the request thread takes the next request
AddClaimReturn(p) ==
    /\ apc[p] = "done"
    /\ apc' = [apc EXCEPT ![p] = "idle"]
    /\ areq' = [areq EXCEPT ![p] = NoRequest]
    /\ ares' = [ares EXCEPT ![p] = "none"]
    /\ amodel' = [amodel EXCEPT ![p] = NoModel]
    /\ UNCHANGED pubVars
    /\ UNCHANGED <<storeVars, phase, lastStart, Identifier, authClaimId,
                   readerVars, issued>>

\* ------------------------------------------------------------------ Revoke
\* Revoke(nonce): Revocations.add(nonce, version)
Revoke(nonce) ==
    /\ phase = "running"
    /\ LET added == AddRevocation(revocationsTree, nonce)
       IN  /\ revocationsTree' = added.tree
           /\ rquiet' = IF added.err = "nil" THEN Disturbed ELSE rquiet
    /\ UNCHANGED pubVars
    /\ UNCHANGED <<claimsTree, rootsTree, claimsDB, savedIdentity, phase,
                   lastStart, Identifier, authClaimId, adderVars,
                   rpc, rop, rresp, issued>>


\* ------------------------------------------------------------------ readers
\* GetIdentity, line 264: GetStateHash
GetIdentityState(r) ==
    /\ phase = "running"
    /\ rpc[r] = "idle"
    /\ InFlight < MaxInFlight
    /\ rop' = [rop EXCEPT ![r] = "GetIdentity"]
    /\ rresp' = [rresp EXCEPT ![r] =
           [NoResponse EXCEPT
              !.State = Hex(GetStateHash(claimsTree, revocationsTree, rootsTree)),
              !.Identifier = Identifier]]
    /\ rquiet' = [rquiet EXCEPT ![r] = TRUE]
    /\ rpc' = [rpc EXCEPT ![r] = "giClaims"]
    /\ UNCHANGED pubVars
    /\ UNCHANGED <<storeVars, phase, lastStart, Identifier, authClaimId,
                   adderVars, issued>>

\* GetIdentity, line 274
GetIdentityClaims(r) ==
    /\ rpc[r] = "giClaims"
    /\ rresp' = [rresp EXCEPT ![r].ClaimsTreeRoot = Hex(Root(claimsTree))]
    /\ rpc' = [rpc EXCEPT ![r] = "giRevs"]
    /\ UNCHANGED pubVars
    /\ UNCHANGED <<storeVars, phase, lastStart, Identifier, authClaimId,
                   adderVars, rop, rquiet, issued>>

\* GetIdentity, line 275
GetIdentityRevs(r) ==
    /\ rpc[r] = "giRevs"
    /\ rresp' = [rresp EXCEPT ![r].RevocationTreeRoot = Hex(Root(revocationsTree))]
    /\ rpc' = [rpc EXCEPT ![r] = "giRoots"]
    /\ UNCHANGED pubVars
    /\ UNCHANGED <<storeVars, phase, lastStart, Identifier, authClaimId,
                   adderVars, rop, rquiet, issued>>

\* GetIdentity, lines 276-280
GetIdentityRoots(r) ==
    /\ rpc[r] = "giRoots"
    /\ rresp' = [rresp EXCEPT ![r].RootOfRoots = Hex(Root(rootsTree))]
    /\ rpc' = [rpc EXCEPT ![r] = "done"]
    /\ UNCHANGED pubVars
    /\ UNCHANGED <<storeVars, phase, lastStart, Identifier, authClaimId,
                   adderVars, rop, rquiet, issued>>

\* GetRevocationStatus, lines 286-293: GenerateRevocationProof
GetRevocationStatusProof(r) ==
    /\ phase = "running"
    /\ rpc[r] = "idle"
    /\ InFlight < MaxInFlight
    /\ \E nonce \in Nonces :
         rresp' = [rresp EXCEPT ![r] =
             [NoResponse EXCEPT
                !.Nonce = nonce,
                !.MTP = GenerateRevocationProof(revocationsTree, nonce)]]
    /\ rop' = [rop EXCEPT ![r] = "GetRevocationStatus"]
    /\ rquiet' = [rquiet EXCEPT ![r] = TRUE]
    /\ rpc' = [rpc EXCEPT ![r] = "grRevs"]
    /\ UNCHANGED pubVars
    /\ UNCHANGED <<storeVars, phase, lastStart, Identifier, authClaimId,
                   adderVars, issued>>

\* GetRevocationStatus, line 294
GetRevocationStatusRevs(r) ==
    /\ rpc[r] = "grRevs"
    /\ rresp' = [rresp EXCEPT ![r].RevocationTreeRoot = Hex(Root(revocationsTree))]
    /\ rpc' = [rpc EXCEPT ![r] = "grRoots"]
    /\ UNCHANGED pubVars
    /\ UNCHANGED <<storeVars, phase, lastStart, Identifier, authClaimId,
                   adderVars, rop, rquiet, issued>>

\* GetRevocationStatus, line 295
GetRevocationStatusRoots(r) ==
    /\ rpc[r] = "grRoots"
    /\ rresp' = [rresp EXCEPT ![r].RootOfRoots = Hex(Root(rootsTree))]
    /\ rpc' = [rpc EXCEPT ![r] = "grClaims"]
    /\ UNCHANGED pubVars
    /\ UNCHANGED <<storeVars, phase, lastStart, Identifier, authClaimId,
                   adderVars, rop, rquiet, issued>>

\* GetRevocationStatus, line 296
GetRevocationStatusClaims(r) ==
    /\ rpc[r] = "grClaims"
    /\ rresp' = [rresp EXCEPT ![r].ClaimsTreeRoot = Hex(Root(claimsTree))]
    /\ rpc' = [rpc EXCEPT ![r] = "grState"]
    /\ UNCHANGED pubVars
    /\ UNCHANGED <<storeVars, phase, lastStart, Identifier, authClaimId,
                   adderVars, rop, rquiet, issued>>

\* GetRevocationStatus, lines 298-304: GetStateHash
GetRevocationStatusState(r) ==
    /\ rpc[r] = "grState"
    /\ rresp' = [rresp EXCEPT ![r].State =
           Hex(GetStateHash(claimsTree, revocationsTree, rootsTree))]
    /\ rpc' = [rpc EXCEPT ![r] = "done"]
    /\ UNCHANGED pubVars
    /\ UNCHANGED <<storeVars, phase, lastStart, Identifier, authClaimId,
                   adderVars, rop, rquiet, issued>>

\* the request thread takes the next request
ReaderReturn(r) ==
    /\ rpc[r] = "done"
    /\ rpc' = [rpc EXCEPT ![r] = "idle"]
    /\ rop' = [rop EXCEPT ![r] = "none"]
    /\ rresp' = [rresp EXCEPT ![r] = NoResponse]
    /\ rquiet' = [rquiet EXCEPT ![r] = TRUE]
    /\ UNCHANGED pubVars
    /\ UNCHANGED <<storeVars, phase, lastStart, Identifier, authClaimId,
                   adderVars, issued>>

\* ------------------------------------------------------------------ publisher
\* the proof of a transition, a[2], b[2][2], c[2]
ZKProof ==
    [a |-> <<"a0", "a1">>,
     b |-> <<<<"b00", "b01">>, <<"b10", "b11">>>>,
     c |-> <<"c0", "c1">>]

NoTransition ==
    [LatestState |-> 0, NewState |-> 0, IsOldStateGenesis |-> FALSE]

NoPayload == <<>>

PubInit ==
    /\ rw = {}
    /\ upc = [t \in Publishers |-> "idle"]
    /\ ureq = [t \in Publishers |-> NoTransition]
    /\ ures = [t \in Publishers |-> [err |-> "none", tx |-> <<>>]]
    /\ upayload = [t \in Publishers |-> NoPayload]
    /\ unonce = [t \in Publishers |-> 0]
    /\ utouched = [t \in Publishers |-> FALSE]
    /\ txs = <<>>
    /\ receipts = <<>>
    /\ wpc = [w \in Waiters |-> "idle"]
    /\ wtx = [w \in Waiters |-> 0]
    /\ wclosed = [w \in Waiters |-> FALSE]

waitVars == <<wpc, wtx, wclosed>>
chainVars == <<txs, receipts>>

\* sync.Mutex.Lock: the mutex can be taken when no thread holds it
MutexFree_Always(m) == TRUE

MutexFree(m) == m = {}

\* merkletree.Hash.Equals
Equals_Never(a, b) == FALSE

Equals(a, b) == a = b

\* getStatePayload packing b as the proof gives it
getStatePayload_Unswapped(ti) ==
    <<"transitState", "id", ti.LatestState, ti.NewState, ti.IsOldStateGenesis,
      ZKProof.a, ZKProof.b, ZKProof.c>>

\* PublisherServer.getStatePayload: the packed call of transitState
getStatePayload(ti) ==
    <<"transitState", "id", ti.LatestState, ti.NewState, ti.IsOldStateGenesis,
      <<ZKProof.a[1], ZKProof.a[2]>>,
      <<<<ZKProof.b[1][2], ZKProof.b[1][1]>>, <<ZKProof.b[2][2], ZKProof.b[2][1]>>>>,
      <<ZKProof.c[1], ZKProof.c[2]>>>>

\* ethclient.PendingNonceAt: the next nonce of the account
PendingNonceAt == Len(txs)

\* types.Transaction.Hash().Hex()
TxHash(tx) == Hex(<<"tx", tx.nonce, tx.payload>>)

\* UpdateState returning with no Unlock
UpdateStateReturns_KeepsLock(t, err, tx) ==
    /\ rw' = rw
    /\ upc' = [upc EXCEPT ![t] = "done"]
    /\ ures' = [ures EXCEPT ![t] = [err |-> err, tx |-> tx]]

\* UpdateState returns: the deferred Unlock runs, the result is set
UpdateStateReturns(t, err, tx) ==
    /\ rw' = rw \ {t}
    /\ upc' = [upc EXCEPT ![t] = "done"]
    /\ ures' = [ures EXCEPT ![t] = [err |-> err, tx |-> tx]]

\* a request to publish a transition arrives
UpdateStateCall(t) ==
    /\ upc[t] = "idle"
    /\ \E old \in States, new \in States, genesis \in BOOLEAN :
         ureq' = [ureq EXCEPT ![t] =
                    [LatestState |-> old, NewState |-> new,
                     IsOldStateGenesis |-> genesis]]
    /\ upc' = [upc EXCEPT ![t] = "lock"]
    /\ UNCHANGED <<rw, ures, upayload, unonce, utouched, chainVars, waitVars>>
    /\ UNCHANGED idVars

\* UpdateState, line 243: ps.rw.Lock()
UpdateStateLock(t) ==
    /\ upc[t] = "lock"
    /\ MutexFree(rw)
    /\ rw' = rw \cup {t}
    /\ upc' = [upc EXCEPT ![t] = "check"]
    /\ UNCHANGED <<ureq, ures, upayload, unonce, utouched, chainVars, waitVars>>
    /\ UNCHANGED idVars

\* UpdateState, lines 246-256: the state must have changed; the public key
UpdateStateCheck(t) ==
    /\ upc[t] = "check"
    /\ IF Equals(ureq[t].NewState, ureq[t].LatestState)
       THEN UpdateStateReturns(t, "StateUnchanged", <<>>)
       ELSE /\ upc' = [upc EXCEPT ![t] = "payload"]
            /\ UNCHANGED <<rw, ures>>
    /\ UNCHANGED <<ureq, upayload, unonce, utouched, chainVars, waitVars>>
    /\ UNCHANGED idVars

\* UpdateState, lines 258-261: getStatePayload, which fails on a proof that
\* does not parse or a call that does not pack
UpdateStatePayload(t) ==
    /\ upc[t] = "payload"
    /\ \E ok \in BOOLEAN :
         IF ok
         THEN /\ upayload' = [upayload EXCEPT ![t] = getStatePayload(ureq[t])]
              /\ upc' = [upc EXCEPT ![t] = "nonce"]
              /\ UNCHANGED <<rw, ures>>
         ELSE /\ UpdateStateReturns(t, "PayloadError", <<>>)
              /\ UNCHANGED upayload
    /\ UNCHANGED <<ureq, unonce, utouched, chainVars, waitVars>>
    /\ UNCHANGED idVars

\* sendTransaction, lines 282-285: PendingNonceAt
SendNonce(t) ==
    /\ upc[t] = "nonce"
    /\ utouched' = [utouched EXCEPT ![t] = TRUE]
    /\ \E ok \in BOOLEAN :
         IF ok
         THEN /\ unonce' = [unonce EXCEPT ![t] = PendingNonceAt]
              /\ upc' = [upc EXCEPT ![t] = "gas"]
              /\ UNCHANGED <<rw, ures>>
         ELSE /\ UpdateStateReturns(t, "ChainIO", <<>>)
              /\ UNCHANGED unonce
    /\ UNCHANGED <<ureq, upayload, chainVars, waitVars>>
    /\ UNCHANGED idVars

\* a chain call of sendTransaction that reads: it fails, or the call goes on
SendReads(t, at, next) ==
    /\ upc[t] = at
    /\ utouched' = [utouched EXCEPT ![t] = TRUE]
    /\ \E ok \in BOOLEAN :
         IF ok
         THEN /\ upc' = [upc EXCEPT ![t] = next]
              /\ UNCHANGED <<rw, ures>>
         ELSE UpdateStateReturns(t, "ChainIO", <<>>)
    /\ UNCHANGED <<ureq, upayload, unonce, chainVars, waitVars>>
    /\ UNCHANGED idVars

\* sendTransaction going from the gas estimate to the broadcast
SendGas_SkipsAhead(t) == SendReads(t, "gas", "send")

\* sendTransaction, lines 287-296: EstimateGas
SendGas(t) == SendReads(t, "gas", "header")

\* sendTransaction, lines 298-305: HeaderByNumber, the base fee
SendHeader(t) == SendReads(t, "header", "tip")

\* sendTransaction, lines 307-323: SuggestGasTipCap, the transaction
SendTip(t) == SendReads(t, "tip", "chainid")

\* sendTransaction, lines 325-328: ChainID
SendChainID(t) == SendReads(t, "chainid", "sign")

\* sendTransaction, lines 330-335: SignTx
SendSign(t) == SendReads(t, "sign", "send")

\* sendTransaction, lines 337-342, and UpdateState, lines 263-268:
\* SendTransaction; the chain takes a transaction that carries the next nonce
SendBroadcast(t) ==
    /\ upc[t] = "send"
    /\ utouched' = [utouched EXCEPT ![t] = TRUE]
    /\ LET signedTx == [nonce |-> unonce[t], payload |-> upayload[t]]
       IN  \E ok \in BOOLEAN :
             IF ok /\ signedTx.nonce = Len(txs) /\ Len(txs) < MaxTx
             THEN /\ txs' = Append(txs, signedTx)
                  /\ receipts' = Append(receipts, "pending")
                  /\ UpdateStateReturns(t, "nil", TxHash(signedTx))
             ELSE /\ UpdateStateReturns(t, "ChainIO", <<>>)
                  /\ UNCHANGED chainVars
    /\ UNCHANGED <<ureq, upayload, unonce, waitVars>>
    /\ UNCHANGED idVars

\* the thread takes the next request
UpdateStateDone(t) ==
    /\ upc[t] = "done"
    /\ upc' = [upc EXCEPT ![t] = "idle"]
    /\ ureq' = [ureq EXCEPT ![t] = NoTransition]
    /\ ures' = [ures EXCEPT ![t] = [err |-> "none", tx |-> <<>>]]
    /\ upayload' = [upayload EXCEPT ![t] = NoPayload]
    /\ unonce' = [unonce EXCEPT ![t] = 0]
    /\ utouched' = [utouched EXCEPT ![t] = FALSE]
    /\ UNCHANGED <<rw, chainVars, waitVars>>
    /\ UNCHANGED idVars

\* the chain includes the oldest pending transaction, with either status
Mine ==
    /\ \E n \in 1..Len(receipts), status \in {"success", "failed"} :
         /\ receipts[n] = "pending"
         /\ \A m \in 1..(n - 1) : receipts[m] # "pending"
         /\ receipts' = [receipts EXCEPT ![n] = status]
    /\ UNCHANGED <<rw, upc, ureq, ures, upayload, unonce, utouched, txs, waitVars>>
    /\ UNCHANGED idVars

\* WaitTransaction, lines 271-279: the done channel, one TransactionReceipt
\* call, close(done) when it returns an error (a failed call, a cancelled
\* context, a transaction not included yet)
WaitTransaction(w) ==
    /\ wpc[w] = "idle"
    /\ \E n \in 1..Len(txs), ok \in BOOLEAN :
         /\ wtx' = [wtx EXCEPT ![w] = n]
         /\ wclosed' = [wclosed EXCEPT ![w] = ~ok \/ receipts[n] = "pending"]
    /\ wpc' = [wpc EXCEPT ![w] = "returned"]
    /\ UNCHANGED <<rw, upc, ureq, ures, upayload, unonce, utouched, chainVars>>
    /\ UNCHANGED idVars

\* the caller of WaitTransaction gives up the channel
WaitTransactionDone(w) ==
    /\ wpc[w] = "returned"
    /\ wpc' = [wpc EXCEPT ![w] = "idle"]
    /\ wtx' = [wtx EXCEPT ![w] = 0]
    /\ wclosed' = [wclosed EXCEPT ![w] = FALSE]
    /\ UNCHANGED <<rw, upc, ureq, ures, upayload, unonce, utouched, chainVars>>
    /\ UNCHANGED idVars

\* ------------------------------------------------------------------ specifications
Init == IdInit /\ PubInit

Next ==
    \/ Start
    \/ Stop
    \/ \E p \in Adders : AddClaimProcess(p)
    \/ \E p \in Adders : AddClaimSign(p)
    \/ \E p \in Adders : AddClaimTree(p)
    \/ \E p \in Adders : AddClaimDB(p)
    \/ \E p \in Adders : AddClaimSave(p)
    \/ \E p \in Adders : AddClaimReturn(p)
    \/ \E n \in Nonces : Revoke(n)
    \/ \E r \in Readers : GetIdentityState(r)
    \/ \E r \in Readers : GetIdentityClaims(r)
    \/ \E r \in Readers : GetIdentityRevs(r)
    \/ \E r \in Readers : GetIdentityRoots(r)
    \/ \E r \in Readers : GetRevocationStatusProof(r)
    \/ \E r \in Readers : GetRevocationStatusRevs(r)
    \/ \E r \in Readers : GetRevocationStatusRoots(r)
    \/ \E r \in Readers : GetRevocationStatusClaims(r)
    \/ \E r \in Readers : GetRevocationStatusState(r)
    \/ \E r \in Readers : ReaderReturn(r)

Spec == Init /\ [][Next]_vars

NextPublisher ==
    \/ \E t \in Publishers : UpdateStateCall(t)
    \/ \E t \in Publishers : UpdateStateLock(t)
    \/ \E t \in Publishers : UpdateStateCheck(t)
    \/ \E t \in Publishers : UpdateStatePayload(t)
    \/ \E t \in Publishers : SendNonce(t)
    \/ \E t \in Publishers : SendGas(t)
    \/ \E t \in Publishers : SendHeader(t)
    \/ \E t \in Publishers : SendTip(t)
    \/ \E t \in Publishers : SendChainID(t)
    \/ \E t \in Publishers : SendSign(t)
    \/ \E t \in Publishers : SendBroadcast(t)
    \/ \E t \in Publishers : UpdateStateDone(t)
    \/ Mine
    \/ \E w \in Waiters : WaitTransaction(w)
    \/ \E w \in Waiters : WaitTransactionDone(w)

SpecPublisher == Init /\ [][NextPublisher]_vars

\* the steps of a call of UpdateState that holds the mutex: each returns when
\* the chain call in it returns
UpdateStateStep(t) ==
    \/ UpdateStateCheck(t)
    \/ UpdateStatePayload(t)
    \/ SendNonce(t)
    \/ SendGas(t)
    \/ SendHeader(t)
    \/ SendTip(t)
    \/ SendChainID(t)
    \/ SendSign(t)
    \/ SendBroadcast(t)

\* the calls of UpdateState alone, the chain including nothing meanwhile
NextUpdateState ==
    \/ \E t \in Publishers : UpdateStateCall(t)
    \/ \E t \in Publishers : UpdateStateLock(t)
    \/ \E t \in Publishers : UpdateStateStep(t)
    \/ \E t \in Publishers : UpdateStateDone(t)

\* a thread that runs goes on, and every chain call returns (weak fairness of
\* the steps under the mutex); sync.Mutex hands the mutex to a waiter that
\* has waited long (its starvation mode), so a waiter that can take the mutex
\* again and again takes it (strong fairness of Lock)
UpdateStateFairness ==
    \A t \in Publishers :
        /\ WF_vars(UpdateStateStep(t))
        /\ SF_vars(UpdateStateLock(t))

SpecUpdateStateLive ==
    Init /\ [][NextUpdateState]_vars /\ UpdateStateFairness

\* ------------------------------------------------------------------ claims on the identity
CoreClaimOf(p) == GenerateCoreClaim(areq[p])

\* the hash a hex string stands for
FromHex(x) == x[2]

\* the state hash of the three roots a response carries
StateOfRoots(resp) ==
    Hex(HashElems(FromHex(resp.ClaimsTreeRoot), FromHex(resp.RevocationTreeRoot),
                  FromHex(resp.RootOfRoots)))

\* the tree of the genesis state: the auth claim alone
GenesisTree == HIndex(NewAuthClaim) :> HValue(NewAuthClaim)

GenesisIdentifier ==
    IdGenesisFromIdenState(HashElems(Root(GenesisTree), Root(EmptyTree), Root(EmptyTree)))

\* C1 (as claimed): after an AddClaim that failed in AddClaimToDB or in
\* SaveIdentity has returned, the Claims tree is back at the root it had before
\* the insertion (the call's leaf is not in it) and the call left no record.
\* With roots as leaf sets and Add rejecting a present key, the prior root is
\* restored exactly when the leaf of the failed call is gone.
FailedAddClaimRestoresRoot ==
    \A p \in Adders :
        (apc[p] = "done" /\ ares[p] \in {"DbIO", "SaveIO"})
            => /\ HIndex(CoreClaimOf(p)) \notin DOMAIN claimsTree
               /\ amodel[p].ID \notin DOMAIN claimsDB

ResponseIsSnapshot ==
    \A r \in Readers :
        rpc[r] = "done" => rresp[r].State = StateOfRoots(rresp[r])

\* C7: the identifier of the running identity, the identifier every
\* GetIdentity response carries and the identifier saved in the db are the
\* identifier derived at genesis, whatever AddClaim and Revoke calls were made
IdentifierNeverChanges ==
    /\ phase = "running" => Identifier = GenesisIdentifier
    /\ savedIdentity # NoIdentity => savedIdentity.id = GenesisIdentifier
    /\ \A r \in Readers :
          rop[r] = "GetIdentity" => rresp[r].Identifier = GenesisIdentifier

\* C7 witness: a GetIdentity response made after an AddClaim and a Revoke
IdentifierWitness ==
    \E r \in Readers :
        /\ rpc[r] = "done" /\ rop[r] = "GetIdentity"
        /\ rresp[r].ClaimsTreeRoot # Hex(Root(GenesisTree))
        /\ rresp[r].RevocationTreeRoot # Hex(Root(EmptyTree))
        /\ \E p \in Adders : apc[p] = "done" /\ ares[p] = "ok"

\* C8 (as claimed): a start over a db that holds a saved identity succeeds and
\* restores the saved identifier and auth-claim id
RestartRestoresIdentity ==
    (lastStart = "restore" /\ phase # "down")
        => /\ phase = "running"
           /\ Identifier = savedIdentity.id
           /\ authClaimId = savedIdentity.authClaimId

\* C9: the tree step of an AddClaim whose claim id is in the Claims tree ends
\* the call with an error (Duplicate, unless the store failed first) and leaves
\* the three trees, the claim records and the saved identity as they were
DuplicateAddClaimRejected ==
    [][\A p \in Adders :
          (apc[p] = "tree" /\ apc'[p] \in {"db", "done"}
             /\ HIndex(CoreClaimOf(p)) \in DOMAIN claimsTree)
            => /\ apc'[p] = "done"
               /\ ares'[p] \in {"Duplicate", "TreeIO"}
               /\ UNCHANGED storeVars]_vars

\* C9 witness: an AddClaim of a claim identical to one in the tree has
\* returned Duplicate
DuplicateWitness ==
    \E p \in Adders :
        /\ apc[p] = "done" /\ ares[p] = "Duplicate"
        /\ HIndex(CoreClaimOf(p)) \in issued
        /\ claimsTree[HIndex(CoreClaimOf(p))] = HValue(CoreClaimOf(p))
        /\ amodel[p].ID \in DOMAIN claimsDB

\* C10: a state hash read with no mutation under way is Poseidon of the
\* current claims, revocations and roots roots, after any genesis, AddClaim
\* and Revoke; and a response read whole between two mutations carries the
\* hash of its own three roots
StateHashIsHashOfRoots ==
    \A r \in Readers :
        /\ (rquiet[r] /\ rpc[r] \in {"giClaims", "giRevs", "giRoots"})
              => rresp[r].State =
                   Hex(HashElems(Root(claimsTree), Root(revocationsTree), Root(rootsTree)))
        /\ (rquiet[r] /\ rpc[r] = "done") => rresp[r].State = StateOfRoots(rresp[r])

\* C10 witness: a state hash read after a successful AddClaim and a successful
\* Revoke, with no mutation since
StateHashWitness ==
    \E r \in Readers :
        /\ rquiet[r] /\ rpc[r] = "giClaims"
        /\ issued # {}
        /\ DOMAIN revocationsTree # {}
        /\ \E p \in Adders : apc[p] = "done" /\ ares[p] = "ok"

\* ------------------------------------------------------------------ claims on the publisher
\* the positions of UpdateState between the nonce fetch and the broadcast
InSend == {"gas", "header", "tip", "chainid", "sign", "send"}

\* C2: the thread that is between the lock and the return holds the mutex,
\* alone, so no two UpdateState calls are at once between their nonce fetch
\* and their broadcast
UpdateStateSerialized ==
    /\ \A t \in Publishers :
          upc[t] \in {"check", "payload", "nonce"} \cup InSend => rw = {t}
    /\ Cardinality({t \in Publishers : upc[t] \in InSend}) <= 1

\* C2 witness: one call is about to broadcast while another waits for the lock
UpdateStateSerializedWitness ==
    \E t, u \in Publishers :
        /\ t # u
        /\ upc[t] = "send"
        /\ upc[u] = "lock"
        /\ ureq[u].NewState # ureq[u].LatestState

\* C3: an UpdateState call whose new state equals its old state makes no
\* chain call and signs nothing, returns StateUnchanged with no transaction
\* hash, and no transaction on the chain carries equal states; no other call
\* returns StateUnchanged
StateUnchangedTouchesNothing ==
    /\ \A t \in Publishers :
          (upc[t] # "idle" /\ ureq[t].NewState = ureq[t].LatestState)
            => /\ ~utouched[t]
               /\ upc[t] \in {"lock", "check", "done"}
               /\ upc[t] = "done" => ures[t] = [err |-> "StateUnchanged", tx |-> <<>>]
    /\ \A t \in Publishers :
          ures[t].err = "StateUnchanged" => ureq[t].NewState = ureq[t].LatestState
    /\ \A n \in 1..Len(txs) : txs[n].payload[3] # txs[n].payload[4]

\* C3 witness: a call with equal states has returned StateUnchanged while the
\* chain holds a transaction of an earlier call
StateUnchangedWitness ==
    \E t \in Publishers :
        /\ upc[t] = "done"
        /\ ures[t].err = "StateUnchanged"
        /\ ureq[t].NewState = ureq[t].LatestState
        /\ Len(txs) > 0

\* C4 (as claimed): when the transaction waited for is included with success
\* status, the done channel the wait returned is closed
WaitCompletesOnSuccess ==
    \A w \in Waiters :
        (wpc[w] = "returned" /\ receipts[wtx[w]] = "success") => wclosed[w]

\* ------------------------------------------------------------------ claims on issuance
\* the records of the credentials AddClaim issued: all but the auth claim's
IssuedRecords == {claimsDB[id] : id \in DOMAIN claimsDB \ {HIndex(NewAuthClaim)}}

\* the value-slot hash of the claim a record stands for
HValueOfRecord(m) == HValue([nonce |-> m.RevNonce])

\* verify_proof(root, proof, h_index, h_value): the proof is one of existence
\* and the root holds the leaf
VerifyProof(root, proof, hi, hv) == proof.existence /\ <<hi, hv>> \in root

\* C11 (as claimed): every successful insertion in the Claims tree, the
\* genesis one included, adds the resulting claims root to the Roots tree:
\* the Roots tree has one entry per leaf of the Claims tree and the current
\* claims root is among its values
RootsTreeRecordsClaimsRoots ==
    DOMAIN claimsTree # {}
        => /\ Cardinality(DOMAIN rootsTree) = Cardinality(DOMAIN claimsTree)
           /\ \E k \in DOMAIN rootsTree : rootsTree[k] = Root(claimsTree)

\* C12 (as claimed): the record of every issued credential carries an
\* inclusion proof that verifies the claim's (h_index, h_value) against the
\* claims root the proof names
IssuedRecordsCarryProof ==
    \A m \in IssuedRecords :
        /\ m.MTPProof # NoProof
        /\ VerifyProof(FromHex(m.MTPProof.claimsTreeRoot), m.MTPProof,
                       m.ID, HValueOfRecord(m))

\* C13 (as claimed): the signature proof of every issued credential is the
\* signature over the h_index of that credential's claim, with the auth claim
\* as issuer data
SignatureIsOverIssuedClaim ==
    \A m \in IssuedRecords :
        /\ m.SignatureProof.signed = m.ID
        /\ m.SignatureProof.issuerAuthClaim = HIndex(NewAuthClaim)

\* C14: once AddClaim has returned success the claim is in the Claims tree
\* with its value, its record and the identity are in the db, and a state hash
\* read with no mutation since the read began is the hash of a claims root
\* that holds the claim
SuccessfulAddClaimIsDurable ==
    \A p \in Adders :
        (apc[p] = "done" /\ ares[p] = "ok")
            => /\ HIndex(CoreClaimOf(p)) \in DOMAIN claimsTree
               /\ claimsTree[HIndex(CoreClaimOf(p))] = HValue(CoreClaimOf(p))
               /\ amodel[p].ID \in DOMAIN claimsDB
               /\ claimsDB[amodel[p].ID] = amodel[p]
               /\ savedIdentity # NoIdentity
               /\ \A r \in Readers :
                     (rquiet[r] /\ rpc[r] \in {"giClaims", "giRevs", "giRoots"})
                        => <<HIndex(CoreClaimOf(p)), HValue(CoreClaimOf(p))>>
                              \in FromHex(rresp[r].State)[1]

\* C14 witness: AddClaim has returned success and a state hash is read after
SuccessfulAddClaimWitness ==
    \E p \in Adders, r \in Readers :
        /\ apc[p] = "done" /\ ares[p] = "ok"
        /\ rquiet[r] /\ rpc[r] = "giClaims"

\* C15: the proof GetRevocationStatus(n) returns has existence false when n
\* is not revoked and true when it is; a proof of existence is of a revoked
\* nonce, and the state hash of that response is the hash of a revocations
\* root that holds the nonce, so it differs from every state hash from before
\* the revocation
RevocationRoundTrip ==
    \A r \in Readers :
        rop[r] = "GetRevocationStatus"
            => /\ rquiet[r] /\ rpc[r] # "done"
                    => rresp[r].MTP.existence = (rresp[r].Nonce \in DOMAIN revocationsTree)
               /\ rresp[r].MTP.existence => rresp[r].Nonce \in DOMAIN revocationsTree
               /\ (rresp[r].MTP.existence /\ rpc[r] = "done")
                    => /\ \E v \in {0} : <<rresp[r].Nonce, v>> \in FromHex(rresp[r].State)[2]
                       /\ rresp[r].State #
                            Hex(GetStateHash(claimsTree,
                                  [n \in DOMAIN revocationsTree \ {rresp[r].Nonce}
                                      |-> revocationsTree[n]],
                                  rootsTree))

\* C15 witness: GetRevocationStatus has returned a proof of existence for a
\* revoked nonce
RevocationWitness ==
    \E r \in Readers :
        /\ rop[r] = "GetRevocationStatus" /\ rpc[r] = "done"
        /\ rresp[r].MTP.existence
        /\ rresp[r].Nonce \in DOMAIN revocationsTree

\* C16 (as claimed): no two claim records, the auth claim's included, carry
\* the same revocation nonce
RevocationNoncesUnique ==
    \A a, b \in DOMAIN claimsDB :
        a # b => claimsDB[a].RevNonce # claimsDB[b].RevNonce

\* C17: the step that sets the identifier derives it from the state hash of a
\* Claims tree that holds the auth claim alone and of empty Revocations and
\* Roots trees
IdentifierFromGenesisState ==
    [][(Identifier' # Identifier /\ Identifier' # <<>>)
          => /\ DOMAIN claimsTree' = {HIndex(NewAuthClaim)}
             /\ revocationsTree' = EmptyTree
             /\ rootsTree' = EmptyTree
             /\ Identifier' =
                  IdGenesisFromIdenState(
                      HashElems(Root(claimsTree'), Root(EmptyTree), Root(EmptyTree)))]_vars

\* C17 witness: the identity right after genesis on an empty db
GenesisWitness ==
    /\ phase = "running"
    /\ lastStart = "fresh"
    /\ Identifier # <<>>
    /\ claimsTree = GenesisTree

\* C18: while the identity runs the auth claim is in the Claims tree and its
\* record is in the db under the auth-claim id the identity holds and under
\* the one saved in the db, and no AddClaim has failed to get the auth claim
AuthClaimAlwaysPresent ==
    /\ phase = "running"
          => /\ authClaimId = HIndex(NewAuthClaim)
             /\ authClaimId \in DOMAIN claimsTree
             /\ claimsTree[authClaimId] = HValue(NewAuthClaim)
             /\ authClaimId \in DOMAIN claimsDB
             /\ claimsDB[authClaimId].ID = authClaimId
    /\ savedIdentity # NoIdentity
          => /\ savedIdentity.authClaimId \in DOMAIN claimsTree
             /\ savedIdentity.authClaimId \in DOMAIN claimsDB
    /\ \A p \in Adders : ares[p] # "KeyNotFound"

\* C18 witness: an AddClaim got the auth claim after another credential was
\* issued
AuthClaimWitness ==
    \E p \in Adders :
        /\ apc[p] = "tree"
        /\ IssuedRecords # {}
        /\ amodel[p].SignatureProof.issuerAuthClaim = authClaimId

\* C19 (as claimed): the revocation-status url in the signature proof of
\* every issued credential carries the revocation nonce of the auth claim
StatusURLCarriesAuthNonce ==
    \A m \in IssuedRecords :
        m.SignatureProof.revocationStatus = RevocationStatusURL(NewAuthClaim.nonce)

\* C20: the step in which AddClaim fails on the schema is its first, and it
\* leaves the three trees, the claim records, the saved identity and the
\* identity object as they were
SchemaFailureChangesNothing ==
    [][\A p \in Adders :
          (ares'[p] = "SchemaInvalid" /\ ares[p] # "SchemaInvalid")
            => /\ apc[p] = "idle"
               /\ apc'[p] = "done"
               /\ UNCHANGED storeVars
               /\ UNCHANGED <<Identifier, authClaimId, issued>>]_vars

\* C20 witness: an AddClaim has failed on the schema on an identity that has
\* issued a credential
SchemaFailureWitness ==
    \E p \in Adders :
        /\ apc[p] = "done" /\ ares[p] = "SchemaInvalid"
        /\ IssuedRecords # {}

\* ------------------------------------------------------------------ claims on the claim id
\* string(b) of a byte slice: the string of those bytes
StringOfBytes(b) == <<"string", b>>

\* []byte(s) of a string: the bytes string(b) was made of, or the bytes of
\* the text when the string is a text
BytesOfString(s) == IF s[1] = "string" THEN s[2] ELSE <<"bytes", s>>

\* AddClaim's response with the hex text of the id in place of string(id)
CreateClaimResponse_Hex(m) == [ID |-> Hex(m.ID)]

\* AddClaim, line 240: CreateClaimResponse{ID: string(claimModel.ID)}
CreateClaimResponse(m) == [ID |-> StringOfBytes(m.ID)]

\* claim.ClaimModelToIden3Credential: the record as a credential, the two
\* proofs included
ClaimModelToIden3Credential(m) ==
    [id |-> m.ID, issuer |-> m.Identifier, revNonce |-> m.RevNonce,
     proof |-> <<m.SignatureProof, m.MTPProof>>]

NoCredential ==
    [id |-> <<>>, issuer |-> <<>>, revNonce |-> 0,
     proof |-> <<NoSignatureProof, NoProof>>]

\* Identity.GetClaim(id): Claims.GetClaim([]byte(id)), then the credential
GetClaim(id) ==
    LET key == BytesOfString(id)
    IN  IF key \in DOMAIN claimsDB
        THEN [err |-> "nil", credential |-> ClaimModelToIden3Credential(claimsDB[key])]
        ELSE [err |-> "KeyNotFound", credential |-> NoCredential]

ExpectedPayload(ti) ==
    <<"transitState", "id", ti.LatestState, ti.NewState, ti.IsOldStateGenesis,
      <<"a0", "a1">>, <<<<"b01", "b00">>, <<"b11", "b10">>>>, <<"c0", "c1">>>>

\* C22: the payload UpdateState built is transitState(id, old state, new
\* state, genesis flag, a, b', c) of the call's transition, in that order,
\* with b' the proof's b with each inner pair swapped, and a broadcast
\* transaction carries such a payload
PayloadSwapsB ==
    /\ \A t \in Publishers :
          upayload[t] # NoPayload
              => /\ upayload[t] = ExpectedPayload(ureq[t])
                 /\ upayload[t][7][1] = <<ZKProof.b[1][2], ZKProof.b[1][1]>>
                 /\ upayload[t][7][2] = <<ZKProof.b[2][2], ZKProof.b[2][1]>>
                 /\ upayload[t][6] = ZKProof.a
                 /\ upayload[t][8] = ZKProof.c
    /\ \A n \in 1..Len(txs) :
          /\ txs[n].payload[7] = <<<<"b01", "b00">>, <<"b11", "b10">>>>
          /\ txs[n].payload[3] # txs[n].payload[4]

\* C22 witness: a transaction with the payload of a transition from a
\* genesis state has been broadcast
PayloadWitness ==
    \E n \in 1..Len(txs) : txs[n].payload[5] /\ txs[n].payload[3] # txs[n].payload[4]

\* the steps of UpdateState in the order the claim gives them
StepOrder ==
    <<"payload", "nonce", "gas", "header", "tip", "chainid", "sign", "send">>

\* C23: the steps of a call run in the order payload, pending nonce, gas
\* estimate, latest header, tip, chain id, signing, broadcast; a step that
\* fails ends the call with an error, no hash and no broadcast; the chain gets
\* a transaction only in the broadcast step of a call, one transaction, and
\* that step ends the call, which then returns that transaction's hash; a
\* call returns a hash in no other step
OneBroadcastPerCall ==
    [][/\ \A t \in Publishers :
            /\ \A i \in 1..Len(StepOrder) :
                  (upc[t] = StepOrder[i] /\ upc'[t] # upc[t])
                     => \/ i < Len(StepOrder) /\ upc'[t] = StepOrder[i + 1] /\ txs' = txs
                        \/ /\ upc'[t] = "done"
                           /\ \/ ures'[t].err # "nil" /\ ures'[t].tx = <<>> /\ txs' = txs
                              \/ /\ i = Len(StepOrder)
                                 /\ ures'[t].err = "nil"
                                 /\ txs' = Append(txs, [nonce |-> unonce[t],
                                                        payload |-> upayload[t]])
                                 /\ ures'[t].tx = TxHash(txs'[Len(txs')])
            /\ (upc[t] = "done" /\ upc'[t] # "done") => upc'[t] = "idle" /\ txs' = txs
            /\ (ures'[t].tx # <<>> /\ ures[t].tx = <<>>) => upc[t] = "send"
       /\ txs' # txs => \E t \in Publishers : upc[t] = "send" /\ upc'[t] = "done"
      ]_vars

\* C23 witness: a call has returned the hash of the transaction it
\* broadcast after another call failed at a chain call and broadcast nothing
OneBroadcastWitness ==
    \E t, u \in Publishers :
        /\ upc[t] = "done" /\ ures[t].err = "nil" /\ ures[t].tx # <<>>
        /\ upc[u] = "done" /\ ures[u].err = "ChainIO"
        /\ Len(txs) = 1

\* C24: a call of UpdateState that has returned, on any path, does not hold
\* the mutex, and every call that waits for the mutex gets it in the end
MutexReleasedAndAcquired ==
    /\ [](\A t \in Publishers : upc[t] \in {"idle", "lock", "done"} => t \notin rw)
    /\ \A t \in Publishers : (upc[t] = "lock") ~> (t \in rw)

\* C24 witness: a call holds the mutex while a call that failed has returned:
\* the mutex being exclusive, it was taken after the failed call's return
MutexWitness ==
    \E t, u \in Publishers :
        /\ upc[u] = "done"
        /\ ures[u].err \in {"StateUnchanged", "PayloadError", "ChainIO"}
        /\ t \in rw

====
